---- MODULE Spec2Model ----
(***************************************************************************)
(* pygsp.filters.approximations.Chebyshev: the evaluation of a Chebyshev   *)
(* series by cos(k arccos x) and by the three-term recurrence, the         *)
(* constructor and the filtering entry point.                              *)
(*                                                                         *)
(* Numbers are exact: a number is a record [nan, v] whose v counts halves  *)
(* (v = 3 is 1.5), so that floating-point rounding is not part of the      *)
(* model; nan marks IEEE not-a-number.  An angle is held the same way      *)
(* with v counting units of pi/6.  The inputs are chosen so that every     *)
(* product and quotient the code forms is a whole number of halves.        *)
(***************************************************************************)
EXTENDS Integers, Sequences, FiniteSets, TLC

\* ------------------------------------------------------------------ bounds

\* Most rows (K) of a coefficient array.
MaxK == 3

\* Most evaluation points of an array x.
MaxN == 2

\* ----------------------------------------------------------------- numbers

Num(v) == [nan |-> FALSE, v |-> v]

NaN == [nan |-> TRUE, v |-> 0]

\* A whole number n (a Python int) as a number.
Whole(n) == Num(2 * n)

FAdd(a, b) == IF a.nan \/ b.nan THEN NaN ELSE Num(a.v + b.v)

FSub(a, b) == IF a.nan \/ b.nan THEN NaN ELSE Num(a.v - b.v)

FMul(a, b) == IF a.nan \/ b.nan THEN NaN ELSE Num((a.v * b.v) \div 2)

\* True division (from __future__ import division).
FDiv(a, b) == IF a.nan \/ b.nan THEN NaN ELSE Num((2 * a.v) \div b.v)

\* np.arccos on one number: an angle in units of pi/6; nan outside [-1, 1].
ArcCosTable == [v \in -2..2 |-> CASE v = 2 -> 0 [] v = 1 -> 2 [] v = 0 -> 3
                                  [] v = -1 -> 4 [] v = -2 -> 6]

ArcCos(a) == IF a.nan \/ a.v < -2 \/ a.v > 2 THEN NaN ELSE Num(ArcCosTable[a.v])

\* np.cos on an angle in units of pi/6.  The odd multiples of pi/6 that are
\* no multiple of pi/2 have an irrational cosine and are not in the table:
\* k * arccos(x) is never one of them for x in {-1, -1/2, 0, 1/2, 1}.
CosTable == [t \in {0, 2, 3, 4, 6, 8, 9, 10} |->
               CASE t = 0 -> 2 [] t = 2 -> 1 [] t = 3 -> 0 [] t = 4 -> -1
                 [] t = 6 -> -2 [] t = 8 -> -1 [] t = 9 -> 0 [] t = 10 -> 1]

Cos(a) == IF a.nan THEN NaN ELSE Num(CosTable[a.v % 12])

\* k * angle for a Python int k.
KTimes(k, a) == IF a.nan THEN NaN ELSE Num(k * a.v)

\* ---------------------------------------------------------------- ndarrays
\* An ndarray is [shape, at]: at maps every index tuple (1-based) of the
\* shape to a number.  A scalar is the array of shape <<>>.

Rank(a) == Len(a.shape)

RECURSIVE Indices(_)
Indices(shape) ==
  IF shape = <<>> THEN {<<>>}
  ELSE {<<i>> \o t : i \in 1..Head(shape), t \in Indices(Tail(shape))}

Scalar(n) == [shape |-> <<>>, at |-> [i \in {<<>>} |-> n]]

\* The 1-D array of the numbers of a sequence.
Vector(seq) == [shape |-> <<Len(seq)>>, at |-> [i \in Indices(<<Len(seq)>>) |-> seq[i[1]]]]

\* The 2-D array of the numbers of a sequence of equally long rows, F columns.
Matrix(rows, F) ==
  [shape |-> <<Len(rows), F>>,
   at |-> [i \in Indices(<<Len(rows), F>>) |-> rows[i[1]][i[2]]]]

\* A raised exception, in the place of a value.
Raise(name) == [err |-> name]

IsErr(r) == "err" \in DOMAIN r

IsArray(r) == "shape" \in DOMAIN r

Max2(a, b) == IF a >= b THEN a ELSE b

\* numpy broadcasting: shapes are aligned at their last axis.
Pad(shape, n) ==
  [j \in 1..n |-> IF j <= n - Len(shape) THEN 1 ELSE shape[j - (n - Len(shape))]]

Broadcastable(sa, sb) ==
  LET n == Max2(Len(sa), Len(sb))
      pa == Pad(sa, n)
      pb == Pad(sb, n)
  IN \A j \in 1..n : pa[j] = pb[j] \/ pa[j] = 1 \/ pb[j] = 1

BroadcastShape(sa, sb) ==
  LET n == Max2(Len(sa), Len(sb))
      pa == Pad(sa, n)
      pb == Pad(sb, n)
  IN [j \in 1..n |-> IF pa[j] = 1 THEN pb[j] ELSE pa[j]]

\* The index into an array of shape `shape` that output index i reads.
Proj(i, shape) ==
  [j \in 1..Len(shape) |-> IF shape[j] = 1 THEN 1 ELSE i[j + Len(i) - Len(shape)]]

\* One arithmetic operation on two numbers.
Arith(op, p, q) ==
  CASE op = "+" -> FAdd(p, q)
    [] op = "-" -> FSub(p, q)
    [] op = "*" -> FMul(p, q)
    [] op = "/" -> FDiv(p, q)

\* a op b, elementwise with broadcasting; the first exception raised wins.
Elementwise(op, a, b) ==
  IF IsErr(a) THEN a
  ELSE IF IsErr(b) THEN b
  ELSE IF ~Broadcastable(a.shape, b.shape) THEN Raise("ValueError")
  ELSE LET sh == BroadcastShape(a.shape, b.shape)
       IN [shape |-> sh,
           at |-> [i \in Indices(sh) |->
                     Arith(op, a.at[Proj(i, a.shape)], b.at[Proj(i, b.shape)])]]

Add(a, b) == Elementwise("+", a, b)

Sub(a, b) == Elementwise("-", a, b)

Mul(a, b) == Elementwise("*", a, b)

Div(a, b) == Elementwise("/", a, b)

\* a += b: the sum must have the shape of a, which is written in place.
IAdd(a, b) ==
  IF IsErr(a) THEN a
  ELSE IF IsErr(b) THEN b
  ELSE IF ~Broadcastable(a.shape, b.shape) THEN Raise("ValueError")
  ELSE IF BroadcastShape(a.shape, b.shape) # a.shape THEN Raise("ValueError")
  ELSE Add(a, b)

\* np.arccos(a), elementwise.
NpArcCos(a) ==
  IF IsErr(a) THEN a
  ELSE [shape |-> a.shape, at |-> [i \in DOMAIN a.at |-> ArcCos(a.at[i])]]

\* np.cos(k * a) for a Python int k, elementwise.
NpCosK(k, a) ==
  IF IsErr(a) THEN a
  ELSE [shape |-> a.shape, at |-> [i \in DOMAIN a.at |-> Cos(KTimes(k, a.at[i]))]]

RECURSIVE SumTo(_, _)
SumTo(n, f) == IF n = 0 THEN Num(0) ELSE FAdd(SumTo(n - 1, f), f[n])

\* a.dot(b) for arrays of rank at most 2: a product by a scalar, or the sum
\* over the last axis of a and the first axis of b.
Dot(a, b) ==
  IF IsErr(a) THEN a
  ELSE IF IsErr(b) THEN b
  ELSE IF Rank(a) = 0 \/ Rank(b) = 0 THEN Mul(a, b)
  ELSE IF a.shape[Rank(a)] # b.shape[1] THEN Raise("ValueError")
  ELSE LET n == b.shape[1]
           sh == SubSeq(a.shape, 1, Rank(a) - 1) \o Tail(b.shape)
           ra == Rank(a) - 1
       IN [shape |-> sh,
           at |-> [i \in Indices(sh) |->
                     SumTo(n, [j \in 1..n |->
                       FMul(a.at[SubSeq(i, 1, ra) \o <<j>>],
                            b.at[<<j>> \o SubSeq(i, ra + 1, Len(i))])])]]

\* np.ones_like(x)
OnesLike(x) == [shape |-> x.shape, at |-> [i \in DOMAIN x.at |-> Whole(1)]]

\* np.zeros(shape)
Zeros(shape) == [shape |-> shape, at |-> [i \in Indices(shape) |-> Num(0)]]

\* c.reshape(c.shape + (1,) * ndim): the same entries, ndim axes of length 1 added.
ReshapeTrailing(c, ndim) ==
  LET sh == c.shape \o [j \in 1..ndim |-> 1]
  IN [shape |-> sh, at |-> [i \in Indices(sh) |-> c.at[SubSeq(i, 1, Rank(c))]]]

\* c[k] for a 0-based k; IndexError past the first axis.
Row(c, k) ==
  IF k >= c.shape[1] THEN Raise("IndexError")
  ELSE [shape |-> Tail(c.shape),
        at |-> [i \in Indices(Tail(c.shape)) |-> c.at[<<k + 1>> \o i]]]

\* ------------------------------------------------------------- evaluators
\* The evaluators read self._coefficients (coef) and never write it, x or s:
\* result is a fresh array, the only one written in place.

\* One term of line 89: c[k] * np.cos(k * x_arccos).dot(s)
DirectTerm(c, k, x_arccos, s) == Mul(Row(c, k), Dot(NpCosK(k, x_arccos), s))

\* for k in range(K): result += c[k] * np.cos(k * x_arccos).dot(s)
RECURSIVE DirectLoop(_, _, _, _, _, _)
DirectLoop(k, K, c, x_arccos, s, result) ==
  IF k >= K THEN result
  ELSE DirectLoop(k + 1, K, c, x_arccos, s,
                  IAdd(result, DirectTerm(c, k, x_arccos, s)))

_evaluate_direct(coef, x, s) ==
  LET K == coef.shape[1]
      F == coef.shape[2]
      c == ReshapeTrailing(coef, Rank(x))
      result == Zeros(<<F, x.shape[1]>>)
      x_arccos == NpArcCos(x)
  IN DirectLoop(0, K, c, x_arccos, s, result)

\* The recurrence with the doubling left out: x2 = x.dot(s) * x1 - x0.
RecurrenceTermUndoubled(x, s, x1, x0) == Sub(Mul(Dot(x, s), x1), x0)

\* Line 125: x2 = 2 * x.dot(s) * x1 - x0
RecurrenceTerm(x, s, x1, x0) == Sub(Mul(Mul(Scalar(Whole(2)), Dot(x, s)), x1), x0)

\* Line 120: result = c[0] * x0.dot(s), c[0] evaluated first.
FirstTerm(c, x0, s) ==
  LET c0 == Row(c, 0) IN IF IsErr(c0) THEN c0 ELSE Mul(c0, Dot(x0, s))

\* Lines 121-123: if K > 1: x1 = x; result += c[1] * x1
SecondTerm(K, c, x, result) == IF K > 1 THEN IAdd(result, Mul(Row(c, 1), x)) ELSE result

\* for k in range(2, K): x2 = ...; result += c[k] * x2; x0, x1 = x1, x2
RECURSIVE RecursiveLoop(_, _, _, _, _, _, _, _)
RecursiveLoop(k, K, c, x, s, x0, x1, result) ==
  IF k >= K THEN result
  ELSE LET x2 == RecurrenceTerm(x, s, x1, x0)
       IN RecursiveLoop(k + 1, K, c, x, s, x1, x2, IAdd(result, Mul(Row(c, k), x2)))

_evaluate_recursive(coef, x, s) ==
  LET K == coef.shape[1]
      c == ReshapeTrailing(coef, Rank(x))
      x0 == OnesLike(x)
      result == SecondTerm(K, c, x, FirstTerm(c, x0, s))
  IN RecursiveLoop(2, K, c, x, s, x0, x, result)

\* --------------------------------------------------------- the entry points

\* x.min() and x.max() of a non-empty array of numbers.
NpMin(x) == CHOOSE m \in {x.at[i].v : i \in DOMAIN x.at} :
              \A i \in DOMAIN x.at : m <= x.at[i].v

NpMax(x) == CHOOSE m \in {x.at[i].v : i \in DOMAIN x.at} :
              \A i \in DOMAIN x.at : m >= x.at[i].v

\* Line 55: x.min() < 0 or x.max() > self.G.lmax
OutOfDomain(x, lmax) == NpMin(x) < 0 \/ NpMax(x) > lmax.v

\* Line 60: 2 * x / self.G.lmax - 1, a new array.
Rescale(x, lmax) == Sub(Div(Mul(Scalar(Whole(2)), x), Scalar(lmax)), Scalar(Whole(1)))

\* The rescaling done in place (x *= 2 / lmax; x -= 1): the caller's array
\* holds the rescaled points afterwards.
CallerXRescaledInPlace(x, lmax) == Rescale(x, lmax)

\* The caller's array after line 60, which binds the local name x to the
\* new array and leaves the array it was called with as it was.
CallerXAfterRescale(x, lmax) == x

\* self._coefficients: the caller's own ndarray when the constructor was
\* given one (np.asarray returns its argument), else the constructor's copy.
Coefficients(obj, arg) == IF obj.coef.shared THEN arg.arr ELSE obj.coef.arr

\* getattr(self, '_evaluate_' + method)(x), s left at its default 1.
Dispatch(obj, arg, method, x) ==
  IF method \notin {"direct", "recursive"} THEN Raise("AttributeError")
  ELSE IF ~obj.coef.set THEN Raise("AttributeError")
  ELSE IF method = "direct"
       THEN _evaluate_direct(Coefficients(obj, arg), x, Scalar(Whole(1)))
       ELSE _evaluate_recursive(Coefficients(obj, arg), x, Scalar(Whole(1)))

\* What _evaluate returns or raises, whether it logged the warning, and the
\* caller's array afterwards.
_evaluate(obj, arg, x, method) ==
  [warned |-> OutOfDomain(x, obj.G.lmax),
   out |-> Dispatch(obj, arg, IF method = "None" THEN "recursive" ELSE method,
                    Rescale(x, obj.G.lmax)),
   x |-> CallerXAfterRescale(x, obj.G.lmax)]

\* A call of an evaluator from outside: self._evaluate_direct(x, s) or
\* self._evaluate_recursive(x, s); self._coefficients is read first.
EvaluatorCall(obj, arg, which, x, s) ==
  IF ~obj.coef.set THEN Raise("AttributeError")
  ELSE IF which = "direct" THEN _evaluate_direct(Coefficients(obj, arg), x, s)
  ELSE _evaluate_recursive(Coefficients(obj, arg), x, s)

\* Line 69 reads L, a local of _filter because line 71 assigns it, before
\* anything has bound it: every call ends there.
_filter(obj, arg, s, method) == Raise("UnboundLocalError")

\* np.asarray(filters): the ndarray itself, or a new array of a list's
\* entries; the empty list and a list of callables give a 1-D array.
NpAsArray(arg) ==
  IF arg.kind = "ndarray" THEN [set |-> TRUE, shared |-> TRUE, shape |-> arg.arr.shape]
  ELSE IF arg.kind = "list" /\ arg.arr.shape[1] > 0
       THEN [set |-> TRUE, shared |-> FALSE, shape |-> arg.arr.shape, arr |-> arg.arr]
  ELSE IF arg.kind = "list"
       THEN [set |-> TRUE, shared |-> FALSE, shape |-> <<0>>, arr |-> Vector(<<>>)]
  ELSE [set |-> TRUE, shared |-> FALSE, shape |-> <<Len(arg.fns)>>,
        arr |-> Vector(arg.fns)]

\* Chebyshev(G, filters, order): the object, or the exception raised.
\* _compute_coefficients is `pass`; filters.Nf exists on a Filter only, and
\* any failure of the try block falls back to np.asarray(filters).
__init__(G, arg, order) ==
  IF arg.kind = "Filter"
  THEN [built |-> TRUE, G |-> G, order |-> order, Nf |-> arg.Nf,
        coef |-> [set |-> FALSE, shared |-> FALSE]]
  ELSE LET a == NpAsArray(arg)
       IN IF Len(a.shape) < 2 THEN Raise("IndexError")
          ELSE [built |-> TRUE, G |-> G, order |-> order, Nf |-> a.shape[2],
                coef |-> a]

\* ------------------------------------------------------------------ inputs

FilterCounts == {1, 2}

\* The rows of a coefficient array: for one filter the coefficient 0 or 1,
\* for two filters 1 or 0 for the first and -1 or 2 for the second.
CoefRows(F) ==
  IF F = 1 THEN {<<Whole(0)>>, <<Whole(1)>>}
  ELSE {<<Whole(1), Whole(-1)>>, <<Whole(0), Whole(2)>>}

\* The K x F coefficient arrays of these rows, K up to MaxK.
CoefArrays ==
  UNION {{Matrix(rows, F) : rows \in [1..K -> CoefRows(F)]} :
           K \in 0..MaxK, F \in FilterCounts}

\* The callables of a Filter: the constant 1 and the identity x.
FilterSets == {<<"one">>, <<"id">>, <<"one", "id">>}

\* What a caller passes as `filters`: an ndarray, a nested list of one
\* column, a Filter object, a plain list of callables.
FilterArgs ==
  {[kind |-> "ndarray", arr |-> a] : a \in CoefArrays}
  \cup {[kind |-> "list", arr |-> a] : a \in {b \in CoefArrays : b.shape[2] = 1}}
  \cup {[kind |-> "Filter", Nf |-> Len(f), fns |-> f] : f \in FilterSets}
  \cup {[kind |-> "callables", fns |-> f] : f \in FilterSets}

\* The path graph on two vertices: Laplacian of eigenvalues {0, 2}.
Graphs ==
  {[lmax |-> Whole(2),
    L |-> Matrix(<<<<Whole(1), Whole(-1)>>, <<Whole(-1), Whole(1)>>>>, 2)]}

\* The order a caller gives: the arrays of MaxK rows have order + 1 rows,
\* the shorter ones have fewer.
Orders == {MaxK - 1}

\* Points of [0, lmax] and outside it, in halves: -0.5, 0, 1, 2, 3.
RawPoints == {Num(-1), Num(0), Num(2), Num(4), Num(6)}

\* Points of [-1, 1] in halves, and 1.5 outside it.
ChebPoints == {Num(-2), Num(-1), Num(0), Num(1), Num(2), Num(3)}

\* Evaluation grids: the arrays of up to MaxN increasing points.
PointArrays(points) ==
  UNION {{Vector(seq) : seq \in {q \in [1..N -> points] :
                                   \A j \in 1..(N - 1) : q[j].v < q[j + 1].v}} :
           N \in 1..MaxN}

\* The rescaled operator of a graph, (2 / lmax) * L - I, as an argument x.
Identity(N) == [shape |-> <<N, N>>,
                at |-> [i \in Indices(<<N, N>>) |->
                          IF i[1] = i[2] THEN Whole(1) ELSE Whole(0)]]

RescaledOperator(G) ==
  Sub(Div(Mul(Scalar(Whole(2)), G.L), Scalar(G.lmax)), Identity(G.L.shape[1]))

\* Signals: the default s=1, a scalar, a vector on the two vertices.
DefaultSignal == Scalar(Whole(1))

Signals == {DefaultSignal, Scalar(Whole(2)), Vector(<<Whole(1), Whole(2)>>)}

Methods == {"None", "recursive", "direct"}

\* ------------------------------------------------------------------- state

VARIABLES
  filters,   \* the caller's `filters` argument, which the caller keeps
  self,      \* the Chebyshev object, once built
  atBuild,   \* history: the entries of `filters` when the object was built
  last       \* the call in progress and what it returned or raised

vars == <<filters, self, atBuild, last>>

Idle == [op |-> "idle"]

NoArray == [kind |-> "none"]

Init ==
  /\ filters \in FilterArgs
  /\ self = [built |-> FALSE]
  /\ atBuild = NoArray
  /\ last = Idle

\* Chebyshev(G, filters, order)
Construct ==
  /\ last = Idle
  /\ ~self.built
  /\ \E G \in Graphs, order \in Orders :
       LET obj == __init__(G, filters, order)
       IN IF IsErr(obj)
          THEN /\ last' = [op |-> "construct", out |-> obj]
               /\ UNCHANGED <<self, atBuild>>
          ELSE /\ self' = obj
               /\ atBuild' = IF filters.kind \in {"ndarray", "list"}
                             THEN filters.arr ELSE NoArray
               /\ last' = [op |-> "construct", out |-> [ok |-> TRUE]]
  /\ UNCHANGED filters

\* The caller writes the first entry of the array or list it passed:
\* filters[0][0] = v.
CallerModify ==
  /\ last = Idle
  /\ self.built
  /\ filters.kind \in {"ndarray", "list"}
  /\ filters.arr = atBuild
  /\ <<1, 1>> \in DOMAIN filters.arr.at
  /\ \E v \in {Whole(0), Whole(1)} :
       /\ v # filters.arr.at[<<1, 1>>]
       /\ filters' = [filters EXCEPT !.arr.at[<<1, 1>>] = v]
  /\ UNCHANGED <<self, atBuild, last>>

\* self._evaluate(x, method)
CallEvaluate ==
  /\ last = Idle
  /\ self.built
  /\ \E x \in PointArrays(RawPoints), method \in Methods :
       LET r == _evaluate(self, filters, x, method)
       IN last' = [op |-> "evaluate", method |-> method, x |-> x,
                   s |-> DefaultSignal, out |-> r.out, warned |-> r.warned,
                   xAfter |-> r.x, sAfter |-> DefaultSignal]
  /\ UNCHANGED <<filters, self, atBuild>>

\* The arguments x of a direct call of an evaluator: points, or the operator.
EvaluatorArgs == PointArrays(ChebPoints) \cup {RescaledOperator(self.G)}

\* self._evaluate_direct(x, s)
CallEvaluateDirect ==
  /\ last = Idle
  /\ self.built
  /\ \E x \in EvaluatorArgs, s \in Signals :
       last' = [op |-> "direct", method |-> "direct", x |-> x, s |-> s,
                out |-> EvaluatorCall(self, filters, "direct", x, s),
                warned |-> FALSE, xAfter |-> x, sAfter |-> s]
  /\ UNCHANGED <<filters, self, atBuild>>

\* self._evaluate_recursive(x, s)
CallEvaluateRecursive ==
  /\ last = Idle
  /\ self.built
  /\ \E x \in EvaluatorArgs, s \in Signals :
       last' = [op |-> "recursive", method |-> "recursive", x |-> x, s |-> s,
                out |-> EvaluatorCall(self, filters, "recursive", x, s),
                warned |-> FALSE, xAfter |-> x, sAfter |-> s]
  /\ UNCHANGED <<filters, self, atBuild>>

\* self._filter(s, method, _)
CallFilter ==
  /\ last = Idle
  /\ self.built
  /\ \E s \in Signals, method \in Methods :
       last' = [op |-> "filter", method |-> method, s |-> s,
                out |-> _filter(self, filters, s, method), warned |-> FALSE,
                sAfter |-> s]
  /\ UNCHANGED <<filters, self, atBuild>>

\* The call returns to the caller (or its exception reaches the caller).
Return ==
  /\ last # Idle
  /\ last' = Idle
  /\ UNCHANGED <<filters, self, atBuild>>

Next ==
  \/ Construct
  \/ CallerModify
  \/ CallEvaluate
  \/ CallEvaluateDirect
  \/ CallEvaluateRecursive
  \/ CallFilter
  \/ Return

Spec == Init /\ [][Next]_vars

\* ------------------------------------------------------------------ claims

\* The coefficient array the object holds (when it holds one).
Coef == Coefficients(self, filters)

HasCoef == self.built /\ self.coef.set

IsCall(l) == l.op \in {"evaluate", "direct", "recursive", "filter"}

\* x is a 1-D array of points of [-1, 1].
ChebDomain(x) == Rank(x) = 1 /\ \A i \in DOMAIN x.at : x.at[i].v \in -2..2

\* C1: with at least one coefficient row, points already in [-1, 1] and s
\* left at its default, _evaluate_direct and _evaluate_recursive return the
\* same array: what one returned is what the other returns on the same
\* arguments, for every filter and every point.
C1_DirectEqualsRecursive ==
  (/\ last.op \in {"direct", "recursive"}
   /\ HasCoef
   /\ Coef.shape[1] >= 1
   /\ last.s = DefaultSignal
   /\ ChebDomain(last.x))
  => /\ IsArray(last.out)
     /\ last.op = "direct" => last.out = _evaluate_recursive(Coef, last.x, last.s)
     /\ last.op = "recursive" => last.out = _evaluate_direct(Coef, last.x, last.s)

\* The recursive evaluator has run on MaxK rows for two filters on a grid
\* of MaxN points of [-1, 1] that holds 1/2, and returned an array.
C1_Witness ==
  /\ last.op = "recursive"
  /\ HasCoef
  /\ Coef.shape = <<MaxK, 2>>
  /\ last.s = DefaultSignal
  /\ ChebDomain(last.x)
  /\ last.x.shape = <<MaxN>>
  /\ \E i \in DOMAIN last.x.at : last.x.at[i] = Num(1)
  /\ IsArray(last.out)
  /\ \E i \in DOMAIN last.out.at : last.out.at[i] # Num(0)

\* The same call made again, on the object and the arrays as they are now.
Repeated(l) ==
  CASE l.op = "evaluate" -> _evaluate(self, filters, l.xAfter, l.method).out
    [] l.op \in {"direct", "recursive"} ->
         EvaluatorCall(self, filters, l.op, l.xAfter, l.sAfter)
    [] l.op = "filter" -> _filter(self, filters, l.sAfter, l.method)

SameValues(out, e) ==
  /\ IsArray(out)
  /\ IsArray(e)
  /\ Broadcastable(out.shape, e.shape)
  /\ BroadcastShape(out.shape, e.shape) = out.shape
  /\ \A i \in DOMAIN out.at : out.at[i] = e.at[Proj(i, e.shape)]

\* x applied to an already-applied vector v: the product of an operator and
\* a vector, or of points and values.
Applied(x, v) == IF Rank(x) = 2 THEN Dot(x, v) ELSE Mul(x, v)

\* sum_{k=j..K-1} c_k * (T_k . s), with t1 = T_{j-1} . s and t0 = T_{j-2} . s
\* carried: T_k . s = 2 * x * (T_{k-1} . s) - T_{k-2} . s.
RECURSIVE SeriesFrom(_, _, _, _, _, _)
SeriesFrom(j, K, c, x, t1, t0) ==
  IF j >= K THEN Scalar(Num(0))
  ELSE LET t == Sub(Mul(Scalar(Whole(2)), Applied(x, t1)), t0)
       IN Add(Mul(Row(c, j), t), SeriesFrom(j + 1, K, c, x, t, t1))

\* sum_{k=0..K-1} c_k * T_k(x) . s for K >= 1 rows: T_0 . s = s, T_1 . s = x . s.
SeriesApplied(coef, x, s) ==
  LET K == coef.shape[1]
      c == ReshapeTrailing(coef, 1)
      t0 == s
      t1 == Applied(x, s)
  IN IF K = 1 THEN Mul(Row(c, 0), t0)
     ELSE Add(Add(Mul(Row(c, 0), t0), Mul(Row(c, 1), t1)),
              SeriesFrom(2, K, c, x, t1, t0))

\* C2: called with a signal s other than the default, _evaluate_recursive
\* carries the recurrence on the applied vectors and returns
\* sum_k c_k * T_k(x) . s: c_0 * s, plus c_1 * (x . s), plus
\* c_k * (2 * x * (T_{k-1} . s) - T_{k-2} . s) for k >= 2; x is an array of
\* points with a scalar s, or an operator with a vector s.
C2_RecurrenceOnAppliedVectors ==
  (/\ last.op = "recursive"
   /\ HasCoef
   /\ Coef.shape[1] >= 1
   /\ last.s # DefaultSignal
   /\ \/ Rank(last.x) = 1 /\ Rank(last.s) = 0
      \/ Rank(last.x) = 2 /\ Rank(last.s) = 1)
  => SameValues(last.out, SeriesApplied(Coef, last.x, last.s))

\* C3: _filter(s, method, _) returns, for every method, what the recursive
\* evaluator returns on the rescaled operator (2 / lmax) * L - I and s.
C3_FilterIsRecursive ==
  (last.op = "filter" /\ HasCoef)
  => last.out = _evaluate_recursive(Coef, RescaledOperator(self.G), last.s)

\* The values of the callables fns at the points x: one row per filter.
FilterValues(fns, x) ==
  [shape |-> <<Len(fns), x.shape[1]>>,
   at |-> [i \in Indices(<<Len(fns), x.shape[1]>>) |->
             IF fns[i[1]] = "one" THEN Whole(1) ELSE x.at[<<i[2]>>]]]

\* C4: an object built from callables that are polynomials of degree at
\* most the order (the constant 1, the identity x; order >= 1), evaluated
\* through _evaluate with method direct or recursive at points of
\* [0, lmax], returns the exact values of the callables.
C4_PolynomialsExact ==
  (/\ last.op = "evaluate"
   /\ filters.kind \in {"Filter", "callables"}
   /\ self.order >= 1
   /\ last.method \in {"direct", "recursive"}
   /\ ~OutOfDomain(last.x, self.G.lmax))
  => last.out = FilterValues(filters.fns, last.x)

\* C5: with exactly one coefficient row, _evaluate_recursive returns
\* c_0 * s for every x and every s: a scalar s with points or an operator
\* x, or a vector s with an operator x of as many columns.
C5_OrderZero ==
  (/\ last.op = "recursive"
   /\ HasCoef
   /\ Coef.shape[1] = 1
   /\ \/ Rank(last.s) = 0
      \/ Rank(last.x) = 2 /\ last.s.shape[1] = last.x.shape[2])
  => SameValues(last.out,
                Mul(Row(ReshapeTrailing(Coef, Rank(last.x)), 0), last.s))

\* C6: _evaluate, with any evaluation method, on an array with a point
\* outside [0, lmax] raises nothing, logs the warning and returns a finite
\* number for every point; it logs the warning only when some point lies
\* outside [0, lmax].
C6_OutOfDomainFinite ==
  (/\ last.op = "evaluate"
   /\ HasCoef
   /\ Coef.shape[1] >= 1)
  => LET outside == \E i \in DOMAIN last.x.at :
                      last.x.at[i].v < 0 \/ last.x.at[i].v > self.G.lmax.v
     IN /\ last.warned <=> outside
        /\ outside => /\ IsArray(last.out)
                      /\ \A i \in DOMAIN last.out.at : ~last.out.at[i].nan

\* C8: a coefficient array whose number of rows is not order + 1 is
\* rejected with ShapeMismatchError, at construction or at evaluation: no
\* evaluator computes with a number of terms other than order + 1.
C8_RowCountChecked ==
  (/\ last.op \in {"evaluate", "direct", "recursive"}
   /\ HasCoef
   /\ Coef.shape[1] # self.order + 1)
  => last.out = Raise("ShapeMismatchError")

\* C9: evaluating with a coefficient array of zero rows raises
\* EmptyCoefficientsError, from the recursive evaluator and from the direct
\* one; neither returns a value.
C9_EmptyCoefficients ==
  (/\ last.op \in {"direct", "recursive"}
   /\ HasCoef
   /\ Coef.shape[1] = 0)
  => last.out = Raise("EmptyCoefficientsError")

\* C10: the object alone owns the coefficient array it was built from: what
\* _evaluate returns after the caller has written to the array it passed is
\* what it returns for the array as it was at construction.
C10_CoefficientsOwned ==
  (/\ last.op = "evaluate"
   /\ filters.kind = "ndarray")
  => last.out = _evaluate(self, [filters EXCEPT !.arr = atBuild],
                          last.x, last.method).out

====
